---- MODULE Spec2Model ----
(***************************************************************************)
(* Model of the credential portal's browser-side logic: the localStorage   *)
(* key families (pendingUsers, approvedUsers, role_<addr>, credentials_*,  *)
(* student_credentials_*, verification_history_*, ipfsMappings_*,          *)
(* txToIpfsMappings), the pinning adapter with its localStorage fallback,  *)
(* role resolution, the admin handlers, credential issuance/verification   *)
(* and the disconnect clean-up.                                            *)
(*                                                                         *)
(* A handler that awaits the wallet or the pinning service is one action   *)
(* whose inputs are the outcomes of those requests.  Timestamps            *)
(* (Date.now()) are not part of the state; where the code sorts by         *)
(* timestamp the resulting order is a nondeterministic choice.             *)
(***************************************************************************)
EXTENDS Naturals, Sequences, FiniteSets, TLC

\* ------------------------------------------------------------------ bounds
MaxCreds == 2
MaxApproved == 3
MaxShares == 2
\* Length of the approvedUsers array found in storage by SpecRole.
MaxStored == 2
\* Operations performed in one behaviour of Spec.
MaxOps == 5
\* handleApprove calls suspended at their pinning request at one time.
MaxInFlight == 2
\* Length of the pendingUsers array found in storage by SpecPin.
MaxPending == 2
\* Calls of storeTransactionData in one behaviour of SpecPin.
MaxCalls == 2
\* Latest block time (and expiry date) of SpecEduChain.
MaxTime == 2
\* Credentials issued in one behaviour of SpecEduChain.
MaxIssued == 2
\* loadUsers calls suspended at the same time.
MaxLoading == 2

\* --------------------------------------------------------------- addresses
\* Wallet addresses as the wallet reports them (mixed-case checksum form).
Admin == "0xAD"
Users == {"0xA1", "0xB2"}

\* String.prototype.toLowerCase on the addresses of the model.
ToLower(s) ==
  CASE s = "0xA1" -> "0xa1"
    [] s = "0xB2" -> "0xb2"
    [] s = "0xAD" -> "0xad"
    [] OTHER -> s

LowerUsers == {ToLower(u) : u \in Users}
\* What can be typed into the admin's add-user form or a verifier field.
AddrInputs == Users \cup LowerUsers

Roles == {"institution", "student"}
NoRole == ""
NoHash == ""

\* Hashes the wallet and the pinning service can answer with.
WalletHashes == {"0xtx1"}
PinHashes == {"QmX", "QmY"}

\* Outcomes of one storeTransactionData call.
PinOutcomes(configured) ==
  IF configured THEN {"ok", "network", "httpError"} ELSE {"notConfigured"}

PinErrorMessage(outcome) ==
  CASE outcome = "notConfigured" -> "Pinata API keys not configured"
    [] outcome = "httpError" -> "Error pinning to IPFS: Bad Request"
    [] outcome = "network" -> "Failed to fetch"
    [] OTHER -> ""

\* ------------------------------------------------------------------- state
VARIABLES
  pinataConfigured,      \* isPinataConfigured(): fixed by the build's env
  account,               \* useActiveAccount()?.address, or "none"
  pendingUsers,          \* localStorage "pendingUsers"
  approvedUsers,         \* localStorage "approvedUsers"
  role,                  \* localStorage role_<addr>  ("" = no such key)
  profileKeys,           \* addrs with user_role_/onboarded_/profile_ keys
  credentials,           \* localStorage credentials_<addr>
  student_credentials,   \* localStorage student_credentials_<addr>
  verification_history,  \* localStorage verification_history_<addr>
  verificationHistory,   \* StudentDashboard component state
  ipfsMappings,          \* localStorage ipfsMappings_<addr>
  txToIpfsMappings,      \* localStorage txToIpfsMappings: set of <<tx, hash>>
  txMentions,            \* addrs found in values of tx_* / *Transaction* keys
  showRoleModal,         \* AppContent state
  selectedRole,          \* AppContent state ("" = null)
  route,                 \* current router path
  nextId,                \* number of credential ids handed out so far
  last,                  \* the operation that completed last, with its result
  ops,                   \* operations performed so far (bounded in Spec)
  approving,             \* handleApprove calls awaiting storeTransactionData
  loading,               \* loadUsers calls awaiting their remote requests
  modal,                 \* RoleSelectionModal component state and its pending request
  chain                  \* the EduChain contract's storage, its event log, the block time

vars == <<pinataConfigured, account, pendingUsers, approvedUsers, role,
          profileKeys, credentials, student_credentials, verification_history,
          verificationHistory, ipfsMappings, txToIpfsMappings, txMentions,
          showRoleModal, selectedRole, route, nextId, last, ops, approving, loading, modal, chain>>

\* ----------------------------------------------------------------- records
\* PendingUser / TransactionData (timestamp and paymentConfirmed left out:
\* every writer sets paymentConfirmed to true).
Entry(address, r, status, tx, ipfs) ==
  [address |-> address, role |-> r, status |-> status,
   transactionHash |-> tx, ipfsHash |-> ipfs]

Credential(id, student, issuer) ==
  [id |-> id, studentWallet |-> student, issuerWallet |-> issuer]

NoCredential == Credential(0, "", "")

VerificationRecord(credentialId, verifier, status) ==
  [credentialId |-> credentialId, verifierAddress |-> verifier, status |-> status]

NoResult == [success |-> FALSE, hash |-> NoHash, error |-> ""]

Last(op, addr, peer, pin, ok, cred, result) ==
  [op |-> op, addr |-> addr, peer |-> peer, pin |-> pin, ok |-> ok,
   cred |-> cred, result |-> result, id |-> 0,
   data |-> Entry("", NoRole, "", NoHash, NoHash), list |-> <<>>]

\* ----------------------------------------------------------------- helpers
SameAddress(a, b) == ToLower(a) = ToLower(b)

\* array.filter(u => u.address.toLowerCase() !== address.toLowerCase())
FilterOut(list, address) ==
  SelectSeq(list, LAMBDA u : ~SameAddress(u.address, address))

\* array.findIndex(u => u.address.toLowerCase() === address.toLowerCase()),
\* 1-based; 0 when there is none.
FindIndex(list, address) ==
  IF \E i \in 1..Len(list) : SameAddress(list[i].address, address)
  THEN CHOOSE i \in 1..Len(list) :
         /\ SameAddress(list[i].address, address)
         /\ \A j \in 1..(i-1) : ~SameAddress(list[j].address, address)
  ELSE 0

Contains(list, address) == FindIndex(list, address) # 0

CountAddress(list, address) ==
  Cardinality({i \in 1..Len(list) : SameAddress(list[i].address, address)})

SeqRange(s) == {s[i] : i \in 1..Len(s)}

\* All orders of a list (the outcome of a sort whose keys are not modelled).
Orders(list) ==
  {p \in [1..Len(list) -> SeqRange(list)] :
     \A e \in SeqRange(list) :
       Cardinality({i \in 1..Len(list) : p[i] = e}) =
       Cardinality({i \in 1..Len(list) : list[i] = e})}

\* "credential_<id>", the transactionHash issueCredential pins under.
CredentialTx(id) == "credential_" \o ToString(id)

\* mappings[txHash] = ipfsHash
PutMapping(mappings, tx, hash) ==
  {p \in mappings : p[1] # tx} \cup {<<tx, hash>>}

\* ---------------------------------------------------------- ipfsService.ts
\* A variant of storeDataInLocalStorage that always pushes the record.
storeDataInLocalStoragePush(pending, data) == Append(pending, data)

\* storeDataInLocalStorage: upsert into pendingUsers by lower-cased address.
storeDataInLocalStorage(pending, data) ==
  LET existingIndex == FindIndex(pending, data.address)
  IN  IF existingIndex # 0
      THEN [pending EXCEPT ![existingIndex] = data]
      ELSE Append(pending, data)

\* storeTxHashMapping, the part written to ipfsMappings_<address>.
storeTxHashMappingByAddress(mappings, address, ipfsHash) ==
  LET key == ToLower(address)
  IN  IF key \notin DOMAIN mappings THEN mappings
      ELSE IF ipfsHash \in SeqRange(mappings[key]) THEN mappings
      ELSE [mappings EXCEPT ![key] = Append(@, ipfsHash)]

\* storeTransactionData(data) with the pinning call's outcome given: the
\* storage it leaves behind.  On success the hash mappings are recorded; on
\* any failure the record is upserted into pendingUsers and the error rethrown.
storeTransactionData(store, data, outcome, hash) ==
  IF outcome = "ok"
  THEN [store EXCEPT
          !.txToIpfsMappings = PutMapping(@, data.transactionHash, hash),
          !.ipfsMappings = storeTxHashMappingByAddress(@, data.address, hash)]
  ELSE [store EXCEPT
          !.pendingUsers = storeDataInLocalStorage(@, data)]

\* The part of localStorage storeTransactionData reads and writes.
PinStore == [pendingUsers |-> pendingUsers,
             txToIpfsMappings |-> txToIpfsMappings,
             ipfsMappings |-> ipfsMappings]

EmptyLists == [a \in LowerUsers |-> <<>>]

\* address(0), the issuer of a credential that was never stored.
ZeroAddress == "0x0"

\* The zero value mapping(string => Credential) yields for an unknown id.
ZeroCredential ==
  [credentialId |-> "", studentName |-> "", institutionName |-> "",
   courseName |-> "", issueDate |-> 0, expiryDate |-> 0, isRevoked |-> FALSE,
   issuer |-> ZeroAddress, student |-> ZeroAddress]

\* EduChain right after its deployment.  credentials is kept as the function
\* from the ids that were written to their Credential; events is the log of
\* the events emitted.
DeployedChain ==
  [institutions |-> [a \in Users |-> [name |-> "", isActive |-> FALSE]],
   credentials |-> [id \in {} |-> ZeroCredential],
   studentCredentials |-> [a \in Users |-> <<>>],
   institutionCount |-> 0,
   credentialCount |-> 0,
   events |-> <<>>,
   timestamp |-> 0]

\* RoleSelectionModal's useState initial values; request is what the running
\* handleConfirmRole call is waiting for ("none" when no call is running).
InitialModal ==
  [transactionStatus |-> "idle", isProcessing |-> FALSE, request |-> "none",
   address |-> "", selectedRole |-> NoRole, transactionHash |-> NoHash]

Init ==
  /\ pinataConfigured \in BOOLEAN
  /\ account = "none"
  /\ pendingUsers = <<>>
  /\ approvedUsers = <<>>
  /\ role = [a \in LowerUsers |-> NoRole]
  /\ profileKeys = {}
  /\ credentials = EmptyLists
  /\ student_credentials = EmptyLists
  /\ verification_history = EmptyLists
  /\ verificationHistory = <<>>
  /\ ipfsMappings = EmptyLists
  /\ txToIpfsMappings = {}
  /\ txMentions = {}
  /\ showRoleModal = FALSE
  /\ selectedRole = NoRole
  /\ route = "/"
  /\ nextId = 0
  /\ last = Last("init", "", "", "", FALSE, NoCredential, NoResult)
  /\ ops = 0
  /\ approving = {}
  /\ loading = {}
  /\ modal = InitialModal
  /\ chain = DeployedChain

\* ------------------------------------------------- App.tsx: role resolution
\* Method 3's keys: startsWith("tx_"), includes("Transaction"),
\* includes("ipfsMappings_"); the hit is a value that contains the address.
TransactionDataMentions(address) ==
  \/ address \in txMentions
  \/ \E k \in DOMAIN ipfsMappings :
       \E i \in 1..Len(ipfsMappings[k]) : ToLower(ipfsMappings[k][i]) = address

\* Method 4: some key of localStorage has the address in its name (and a
\* non-empty value).
KeyNameMentions(address) ==
  \/ role[address] # NoRole
  \/ address \in profileKeys
  \/ credentials[address] # <<>>
  \/ student_credentials[address] # <<>>
  \/ verification_history[address] # <<>>
  \/ ipfsMappings[address] # <<>>

\* A variant of checkIfUserHasRole that scans the transaction data before
\* the approved list.
checkIfUserHasRoleScanFirst(address) ==
  LET normalizedAddress == ToLower(address)
      foundIndex == FindIndex(approvedUsers, normalizedAddress)
  IN  IF role[normalizedAddress] # NoRole
        THEN [ret |-> TRUE, role |-> role, log |-> "direct storage"]
      ELSE IF TransactionDataMentions(normalizedAddress)
        THEN [ret |-> TRUE,
              role |-> [role EXCEPT ![normalizedAddress] = "student"],
              log |-> "transaction data"]
      ELSE IF foundIndex # 0
        THEN [ret |-> TRUE,
              role |-> [role EXCEPT
                          ![normalizedAddress] = approvedUsers[foundIndex].role],
              log |-> "approved users list"]
      ELSE IF KeyNameMentions(normalizedAddress)
        THEN [ret |-> TRUE, role |-> role, log |-> "localStorage"]
      ELSE [ret |-> FALSE, role |-> role, log |-> "No role found"]

\* checkIfUserHasRole(address): the value returned, role_<addr> afterwards and
\* the source its console message names.
checkIfUserHasRole(address) ==
  LET normalizedAddress == ToLower(address)
      foundIndex == FindIndex(approvedUsers, normalizedAddress)
  IN  IF role[normalizedAddress] # NoRole
        THEN [ret |-> TRUE, role |-> role, log |-> "direct storage"]
      ELSE IF foundIndex # 0
        THEN [ret |-> TRUE,
              role |-> [role EXCEPT
                          ![normalizedAddress] = approvedUsers[foundIndex].role],
              log |-> "approved users list"]
      ELSE IF TransactionDataMentions(normalizedAddress)
        THEN [ret |-> TRUE,
              role |-> [role EXCEPT ![normalizedAddress] = "student"],
              log |-> "transaction data"]
      ELSE IF KeyNameMentions(normalizedAddress)
        THEN [ret |-> TRUE, role |-> role, log |-> "localStorage"]
      ELSE [ret |-> FALSE, role |-> role, log |-> "No role found"]

\* getUserRole(address) against a given role_<addr> family ("" = null).
getUserRole(roles, address) ==
  LET foundIndex == FindIndex(approvedUsers, address)
  IN  IF roles[address] # NoRole THEN roles[address]
      ELSE IF foundIndex # 0 THEN approvedUsers[foundIndex].role
      ELSE NoRole

\* navigateToDashboard(role)
DashboardOf(r, current) ==
  CASE r = "institution" -> "/institution-dashboard"
    [] r = "student" -> "/student-dashboard"
    [] OTHER -> current

\* The modal is rendered when showRoleModal && !isAdmin && !selectedRole.
ModalVisible ==
  /\ showRoleModal
  /\ account \in Users
  /\ selectedRole = NoRole

\* The effect that runs when the connected account changes to the admin.
ConnectAdmin ==
  /\ account # Admin
  /\ account' = Admin
  /\ route' = "/admin-dashboard"
  /\ showRoleModal' = FALSE
  /\ selectedRole' = NoRole
  /\ verificationHistory' = <<>>
  /\ last' = Last("connectAdmin", ToLower(Admin), "", "", TRUE, NoCredential, NoResult)
  /\ UNCHANGED <<pinataConfigured, pendingUsers, approvedUsers, role, profileKeys,
                 credentials, student_credentials, verification_history,
                 ipfsMappings, txToIpfsMappings, txMentions, nextId>>

\* AdminDashboard's guard effect: a mounted admin dashboard navigates to "/"
\* when the account is not the admin.  The other dashboards have no guard.
GuardedRoute(current, address) ==
  IF current = "/admin-dashboard" /\ address # Admin THEN "/" ELSE current

\* The effects that run when the connected account changes to a non-admin:
\* the mounted page's (AdminDashboard's guard), then AppContent's.
Connect(a) ==
  /\ a \in Users
  /\ account # a
  /\ LET normalizedAddress == ToLower(a)
         check == checkIfUserHasRole(normalizedAddress)
         userRole == getUserRole(check.role, normalizedAddress)
     IN  /\ account' = a
         /\ role' = check.role
         /\ showRoleModal' = ~check.ret
         /\ selectedRole' = IF check.ret /\ userRole # NoRole THEN userRole
                            ELSE selectedRole
         /\ route' = IF check.ret
                     THEN DashboardOf(userRole, GuardedRoute(route, a))
                     ELSE GuardedRoute(route, a)
         /\ verificationHistory' = verification_history[normalizedAddress]
         /\ last' = Last("checkIfUserHasRole", normalizedAddress, "", check.log,
                         check.ret, NoCredential, NoResult)
  /\ UNCHANGED <<pinataConfigured, pendingUsers, approvedUsers, profileKeys,
                 credentials, student_credentials, verification_history,
                 ipfsMappings, txToIpfsMappings, txMentions, nextId>>

\* The Disconnect button: every key except approvedUsers and the leaving
\* user's role_/user_role_/onboarded_/profile_ keys is removed, then the
\* page reloads.
Disconnect ==
  /\ account # "none"
  /\ LET userAddress == ToLower(account)
     IN  /\ role' = [a \in LowerUsers |-> IF a = userAddress THEN role[a] ELSE NoRole]
         /\ profileKeys' = profileKeys \cap {userAddress}
         /\ last' = Last("disconnect", userAddress, "", "", TRUE, NoCredential, NoResult)
  /\ pendingUsers' = <<>>
  /\ credentials' = EmptyLists
  /\ student_credentials' = EmptyLists
  /\ verification_history' = EmptyLists
  /\ ipfsMappings' = EmptyLists
  /\ txToIpfsMappings' = {}
  /\ txMentions' = {}
  /\ account' = "none"
  /\ showRoleModal' = FALSE
  /\ selectedRole' = NoRole
  /\ route' = "/"
  /\ verificationHistory' = <<>>
  /\ UNCHANGED <<pinataConfigured, approvedUsers, nextId>>

\* The navbar's dashboard button of a connected non-admin.
DashboardButton ==
  /\ account \in Users
  /\ LET normalizedAddress == ToLower(account)
         userRole == getUserRole(role, normalizedAddress)
     IN  /\ route' = DashboardOf(userRole, route)
         /\ showRoleModal' = IF userRole = NoRole THEN TRUE ELSE showRoleModal
         /\ last' = Last("dashboardButton", normalizedAddress, "", "",
                         userRole # NoRole, NoCredential, NoResult)
  /\ UNCHANGED <<pinataConfigured, account, pendingUsers, approvedUsers, role,
                 profileKeys, credentials, student_credentials,
                 verification_history, verificationHistory, ipfsMappings,
                 txToIpfsMappings, txMentions, selectedRole, nextId>>

\* onClose of the role-selection modal.
CloseModal ==
  /\ ModalVisible
  /\ showRoleModal' = FALSE
  /\ last' = Last("closeModal", ToLower(account), "", "", TRUE, NoCredential, NoResult)
  /\ UNCHANGED <<pinataConfigured, account, pendingUsers, approvedUsers, role,
                 profileKeys, credentials, student_credentials,
                 verification_history, verificationHistory, ipfsMappings,
                 txToIpfsMappings, txMentions, selectedRole, route, nextId>>

\* ------------------------------------------------------ role selection flow
\* App.handleRoleSelect(role): the approvedUsers array it writes.
handleRoleSelectApproved(approved, address, r) ==
  Append(FilterOut(approved, address),
         Entry(address, r, "approved", NoHash, NoHash))

\* RoleSelectionModal.handleConfirmRole, lines 100-124: the approvedUsers
\* array it writes.
handleConfirmRoleApproved(approved, transactionData) ==
  Append(FilterOut(approved, transactionData.address), transactionData)

\* RoleSelectionModal.handleConfirmRole with the wallet request rejected.
HandleConfirmRoleRejected(r) ==
  /\ ModalVisible
  /\ r \in Roles
  /\ last' = Last("handleConfirmRole", ToLower(account), "", "walletRejected",
                  FALSE, NoCredential, NoResult)
  /\ UNCHANGED <<pinataConfigured, account, pendingUsers, approvedUsers, role,
                 profileKeys, credentials, student_credentials,
                 verification_history, verificationHistory, ipfsMappings,
                 txToIpfsMappings, txMentions, showRoleModal, selectedRole,
                 route, nextId>>

\* RoleSelectionModal.handleConfirmRole with the payment made, followed by its
\* onSelectRole callback (App.handleRoleSelect).  storeTransactionData is
\* called only when the pinning service is configured.
HandleConfirmRole(r, txHash, outcome, hash) ==
  /\ ModalVisible
  /\ r \in Roles
  /\ txHash \in WalletHashes
  /\ outcome \in PinOutcomes(pinataConfigured)
  /\ hash \in PinHashes
  /\ LET normalizedAddress == ToLower(account)
         transactionData == Entry(normalizedAddress, r, "approved", txHash, NoHash)
         store == IF pinataConfigured
                  THEN storeTransactionData(PinStore, transactionData, outcome, hash)
                  ELSE PinStore
         pinned == IF outcome = "ok"
                   THEN [transactionData EXCEPT !.ipfsHash = hash]
                   ELSE transactionData
         confirmed == handleConfirmRoleApproved(approvedUsers, pinned)
     IN  /\ pendingUsers' = store.pendingUsers
         /\ txToIpfsMappings' = store.txToIpfsMappings
         /\ ipfsMappings' = store.ipfsMappings
         /\ approvedUsers' = handleRoleSelectApproved(confirmed, normalizedAddress, r)
         /\ role' = [role EXCEPT ![normalizedAddress] = r]
         /\ profileKeys' = profileKeys \cup {normalizedAddress}
         /\ selectedRole' = r
         /\ showRoleModal' = FALSE
         /\ route' = DashboardOf(r, route)
         /\ last' = Last("handleConfirmRole", normalizedAddress, "", outcome,
                         TRUE, NoCredential, NoResult)
  /\ UNCHANGED <<pinataConfigured, account, credentials, student_credentials,
                 verification_history, verificationHistory, txMentions, nextId>>

\* ---------------------------------------------------------- AdminDashboard
\* loadUsers' write-back when the pinning service is configured: both lists
\* re-ordered by timestamp (no pins are recorded under the admin's address,
\* so the merge loop adds nothing).  Without the service nothing is written.
loadUsersOrders(list) ==
  IF pinataConfigured THEN Orders(list) ELSE {list}

\* handleApprove, lines 210-245: the approvedUsers array it writes.
handleApproveApproved(approved, user) ==
  Append(approved, [user EXCEPT !.status = "approved"])

\* handleApprove/handleReject: the pendingUsers array they write.
handleApprovePending(pending, user) == FilterOut(pending, user.address)

HandleApprove(i, outcome, hash) ==
  /\ account = Admin
  /\ i \in 1..Len(pendingUsers)
  /\ Len(approvedUsers) < MaxApproved
  /\ outcome \in PinOutcomes(pinataConfigured)
  /\ hash \in PinHashes
  /\ LET user == pendingUsers[i]
         normalizedAddress == ToLower(user.address)
         updatedPendingUsers == handleApprovePending(pendingUsers, user)
         updatedApprovedUsers == handleApproveApproved(approvedUsers, user)
         approvalData == Entry(user.address, user.role, "approved",
                               IF user.transactionHash # NoHash
                               THEN user.transactionHash ELSE "admin-approved",
                               user.ipfsHash)
         store == storeTransactionData(
                    [PinStore EXCEPT !.pendingUsers = updatedPendingUsers],
                    approvalData, outcome, hash)
         finalApproved ==
           IF outcome = "ok"
           THEN [updatedApprovedUsers EXCEPT
                   ![Len(updatedApprovedUsers)].ipfsHash = hash]
           ELSE updatedApprovedUsers
     IN  /\ pendingUsers' \in loadUsersOrders(store.pendingUsers)
         /\ approvedUsers' \in loadUsersOrders(finalApproved)
         /\ txToIpfsMappings' = store.txToIpfsMappings
         /\ ipfsMappings' = store.ipfsMappings
         /\ role' = [role EXCEPT ![normalizedAddress] = user.role]
         /\ last' = Last("handleApprove", normalizedAddress, "", outcome, TRUE,
                         NoCredential, NoResult)
  /\ UNCHANGED <<pinataConfigured, account, profileKeys, credentials,
                 student_credentials, verification_history, verificationHistory,
                 txMentions, showRoleModal, selectedRole, route, nextId>>

\* A variant of the write after the pinning request that re-reads approvedUsers.
handleApproveSettledFresh(current, call, outcome, hash) ==
  IF outcome = "ok"
  THEN [i \in 1..Len(current) |->
          IF current[i] = [call.user EXCEPT !.status = "approved"]
          THEN [current[i] EXCEPT !.ipfsHash = hash]
          ELSE current[i]]
  ELSE current

\* handleApprove, lines 263-270: the approvedUsers array in localStorage once
\* the pinning request has settled.  On success the array built before the
\* request (updatedApprovedUsers, with the hash put into its last element) is
\* written again; on failure nothing is written.
handleApproveSettled(current, call, outcome, hash) ==
  IF outcome = "ok"
  THEN [call.updatedApprovedUsers EXCEPT
          ![Len(call.updatedApprovedUsers)].ipfsHash = hash]
  ELSE current

\* handleApprove up to its await: lines 204-262.  With the pinning service
\* configured the call is suspended at fetch and other handlers can run.
HandleApproveBegin(i) ==
  /\ account = Admin
  /\ pinataConfigured
  /\ i \in 1..Len(pendingUsers)
  /\ Len(approvedUsers) < MaxApproved
  /\ Cardinality(approving) < MaxInFlight
  /\ LET user == pendingUsers[i]
         normalizedAddress == ToLower(user.address)
         updatedApprovedUsers == handleApproveApproved(approvedUsers, user)
     IN  /\ \A call \in approving : ~SameAddress(call.user.address, user.address)
         /\ pendingUsers' = handleApprovePending(pendingUsers, user)
         /\ approvedUsers' = updatedApprovedUsers
         /\ role' = [role EXCEPT ![normalizedAddress] = user.role]
         /\ approving' = approving \cup
              {[user |-> user, updatedApprovedUsers |-> updatedApprovedUsers]}
         /\ last' = Last("handleApproveBegin", normalizedAddress, "", "", TRUE,
                         NoCredential, NoResult)
  /\ UNCHANGED <<pinataConfigured, account, profileKeys, credentials,
                 student_credentials, verification_history, verificationHistory,
                 ipfsMappings, txToIpfsMappings, txMentions, showRoleModal,
                 selectedRole, route, nextId>>

\* handleApprove from the settling of its pinning request to its end: lines
\* 262-277, storeTransactionData's continuation included.
HandleApproveSettle(call, outcome, hash) ==
  /\ call \in approving
  /\ outcome \in PinOutcomes(pinataConfigured)
  /\ hash \in PinHashes
  /\ LET user == call.user
         approvalData == Entry(user.address, user.role, "approved",
                               IF user.transactionHash # NoHash
                               THEN user.transactionHash ELSE "admin-approved",
                               user.ipfsHash)
         store == storeTransactionData(PinStore, approvalData, outcome, hash)
         settled == handleApproveSettled(approvedUsers, call, outcome, hash)
     IN  /\ pendingUsers' \in loadUsersOrders(store.pendingUsers)
         /\ approvedUsers' \in loadUsersOrders(settled)
         /\ txToIpfsMappings' = store.txToIpfsMappings
         /\ ipfsMappings' = store.ipfsMappings
         /\ approving' = approving \ {call}
         /\ last' = Last("handleApproveSettle", ToLower(user.address), "", outcome,
                         TRUE, NoCredential, NoResult)
  /\ UNCHANGED <<pinataConfigured, account, role, profileKeys, credentials,
                 student_credentials, verification_history, verificationHistory,
                 txMentions, showRoleModal, selectedRole, route, nextId>>

HandleReject(i, outcome, hash) ==
  /\ account = Admin
  /\ i \in 1..Len(pendingUsers)
  /\ outcome \in PinOutcomes(pinataConfigured)
  /\ hash \in PinHashes
  /\ LET user == pendingUsers[i]
         updatedPendingUsers == handleApprovePending(pendingUsers, user)
         rejectionData == Entry(user.address, user.role, "rejected",
                                IF user.transactionHash # NoHash
                                THEN user.transactionHash ELSE "admin-rejected",
                                user.ipfsHash)
         store == storeTransactionData(
                    [PinStore EXCEPT !.pendingUsers = updatedPendingUsers],
                    rejectionData, outcome, hash)
     IN  /\ pendingUsers' \in loadUsersOrders(store.pendingUsers)
         /\ approvedUsers' \in loadUsersOrders(approvedUsers)
         /\ txToIpfsMappings' = store.txToIpfsMappings
         /\ ipfsMappings' = store.ipfsMappings
         /\ last' = Last("handleReject", ToLower(user.address), "", outcome, TRUE,
                         NoCredential, NoResult)
  /\ UNCHANGED <<pinataConfigured, account, role, profileKeys, credentials,
                 student_credentials, verification_history, verificationHistory,
                 txMentions, showRoleModal, selectedRole, route, nextId>>

HandleRemove(i) ==
  /\ account = Admin
  /\ i \in 1..Len(approvedUsers)
  /\ LET user == approvedUsers[i]
         normalizedAddress == ToLower(user.address)
     IN  /\ approvedUsers' \in loadUsersOrders(FilterOut(approvedUsers, user.address))
         /\ pendingUsers' \in loadUsersOrders(pendingUsers)
         /\ role' = [role EXCEPT ![normalizedAddress] = NoRole]
         /\ last' = Last("handleRemove", normalizedAddress, "", "", TRUE,
                         NoCredential, NoResult)
  /\ UNCHANGED <<pinataConfigured, account, profileKeys, credentials,
                 student_credentials, verification_history, verificationHistory,
                 ipfsMappings, txToIpfsMappings, txMentions, showRoleModal,
                 selectedRole, route, nextId>>

\* handleAddUser with the wallet request rejected (or failing).
HandleAddUserRejected(newUserAddress) ==
  /\ account = Admin
  /\ newUserAddress \in AddrInputs
  /\ last' = Last("handleAddUser", ToLower(newUserAddress), "", "walletRejected",
                  FALSE, NoCredential, NoResult)
  /\ UNCHANGED <<pinataConfigured, account, pendingUsers, approvedUsers, role,
                 profileKeys, credentials, student_credentials,
                 verification_history, verificationHistory, ipfsMappings,
                 txToIpfsMappings, txMentions, showRoleModal, selectedRole,
                 route, nextId>>

\* handleAddUser with the fee paid.  storeTransactionData is called only when
\* the pinning service is configured; the already-approved check comes last.
HandleAddUser(newUserAddress, newUserRole, txHash, outcome, hash) ==
  /\ account = Admin
  /\ newUserAddress \in AddrInputs
  /\ newUserRole \in Roles
  /\ txHash \in WalletHashes
  /\ outcome \in PinOutcomes(pinataConfigured)
  /\ hash \in PinHashes
  /\ LET normalizedAddress == ToLower(newUserAddress)
         newUser == Entry(normalizedAddress, newUserRole, "approved", txHash, NoHash)
         store == IF pinataConfigured
                  THEN storeTransactionData(PinStore, newUser, outcome, hash)
                  ELSE PinStore
         pinned == IF outcome = "ok" THEN [newUser EXCEPT !.ipfsHash = hash]
                   ELSE newUser
         isAlreadyApproved == Contains(approvedUsers, newUserAddress)
     IN  /\ txToIpfsMappings' = store.txToIpfsMappings
         /\ ipfsMappings' = store.ipfsMappings
         /\ IF isAlreadyApproved
            THEN /\ pendingUsers' = store.pendingUsers
                 /\ UNCHANGED <<approvedUsers, role>>
            ELSE /\ pendingUsers' \in loadUsersOrders(store.pendingUsers)
                 /\ approvedUsers' \in loadUsersOrders(Append(approvedUsers, pinned))
                 /\ role' = [role EXCEPT ![normalizedAddress] = newUserRole]
         /\ last' = Last("handleAddUser", normalizedAddress, "", outcome,
                         ~isAlreadyApproved, NoCredential, NoResult)
  /\ UNCHANGED <<pinataConfigured, account, profileKeys, credentials,
                 student_credentials, verification_history, verificationHistory,
                 txMentions, showRoleModal, selectedRole, route, nextId>>

\* The "Fast Add (Admin Only)" button.
FastAdd(newUserAddress, newUserRole) ==
  /\ account = Admin
  /\ newUserAddress \in AddrInputs
  /\ newUserRole \in Roles
  /\ LET normalizedAddress == ToLower(newUserAddress)
         newUser == Entry(normalizedAddress, newUserRole, "approved",
                          "admin-direct-add", NoHash)
         isAlreadyApproved == Contains(approvedUsers, normalizedAddress)
     IN  /\ IF isAlreadyApproved
            THEN UNCHANGED <<pendingUsers, approvedUsers, role>>
            ELSE /\ approvedUsers' \in loadUsersOrders(Append(approvedUsers, newUser))
                 /\ pendingUsers' \in loadUsersOrders(pendingUsers)
                 /\ role' = [role EXCEPT ![normalizedAddress] = newUserRole]
         /\ last' = Last("fastAdd", normalizedAddress, "", "", ~isAlreadyApproved,
                         NoCredential, NoResult)
  /\ UNCHANGED <<pinataConfigured, account, profileKeys, credentials,
                 student_credentials, verification_history, verificationHistory,
                 ipfsMappings, txToIpfsMappings, txMentions, showRoleModal,
                 selectedRole, route, nextId>>

\* The dashboard's refresh (Refresh button and the 5-second interval).
LoadUsers ==
  /\ account = Admin
  /\ pendingUsers' \in loadUsersOrders(pendingUsers)
  /\ approvedUsers' \in loadUsersOrders(approvedUsers)
  /\ last' = Last("loadUsers", ToLower(Admin), "", "", TRUE, NoCredential, NoResult)
  /\ UNCHANGED <<pinataConfigured, account, role, profileKeys, credentials,
                 student_credentials, verification_history, verificationHistory,
                 ipfsMappings, txToIpfsMappings, txMentions, showRoleModal,
                 selectedRole, route, nextId>>

\* ------------------------------------------------------ credentialService.ts
\* saveCredentialToLocalStorage: push onto credentials_<institution> and onto
\* student_credentials_<credential.studentWallet>.
saveCredentialToLocalStorage(store, credential, institutionAddress) ==
  [store EXCEPT
     !.credentials[ToLower(institutionAddress)] = Append(@, credential),
     !.student_credentials[ToLower(credential.studentWallet)] = Append(@, credential)]

CredentialStore == [credentials |-> credentials,
                    student_credentials |-> student_credentials]

\* issueCredential's return value.
issueCredentialResult(outcome, hash) ==
  IF outcome = "ok"
  THEN [success |-> TRUE, hash |-> hash, error |-> ""]
  ELSE [success |-> FALSE, hash |-> NoHash, error |-> PinErrorMessage(outcome)]

\* A variant of issueCredential without the save in its catch block.
issueCredentialSavedOnSuccessOnly(store, credential, institutionAddress, outcome) ==
  IF outcome = "ok"
  THEN saveCredentialToLocalStorage(store, credential, institutionAddress)
  ELSE store

\* issueCredential's writes to the credential lists: one save on the success
\* path, one in the catch block.
issueCredentialSaved(store, credential, institutionAddress, outcome) ==
  saveCredentialToLocalStorage(store, credential, institutionAddress)

\* IssueCredential.handleSubmit: after issueCredential, on success only, the
\* saveCredential callback of InstitutionDashboard saves the credential again.
handleSubmitSaved(store, credential, institutionAddress, result) ==
  IF result.success
  THEN saveCredentialToLocalStorage(store, credential, institutionAddress)
  ELSE store

HandleSubmit(student, outcome, hash) ==
  /\ account \in Users
  /\ student \in AddrInputs
  /\ nextId < MaxCreds
  /\ outcome \in PinOutcomes(pinataConfigured)
  /\ hash \in PinHashes
  /\ LET id == nextId + 1
         newCredential == Credential(id, ToLower(student), ToLower(account))
         data == Entry(account, "institution", "approved", CredentialTx(id), NoHash)
         store == storeTransactionData(PinStore, data, outcome, hash)
         result == issueCredentialResult(outcome, hash)
         issued == issueCredentialSaved(CredentialStore, newCredential, account, outcome)
         saved == handleSubmitSaved(issued, newCredential, account, result)
     IN  /\ pendingUsers' = store.pendingUsers
         /\ txToIpfsMappings' = store.txToIpfsMappings
         /\ ipfsMappings' = store.ipfsMappings
         /\ credentials' = saved.credentials
         /\ student_credentials' = saved.student_credentials
         /\ nextId' = id
         /\ last' = Last("handleSubmit", ToLower(account), ToLower(student), outcome,
                         result.success, newCredential, result)
  /\ UNCHANGED <<pinataConfigured, account, approvedUsers, role, profileKeys,
                 verification_history, verificationHistory, txMentions,
                 showRoleModal, selectedRole, route>>

\* A variant of the lookup that takes the first credential of the array
\* whatever its id.
FindFirstCredential(list, credentialId) ==
  IF list # <<>> THEN {list[1]} ELSE {}

\* credentials.find(c => c.id === credentialId): the set holding the first
\* match, empty when there is none.
FindCredential(list, credentialId) ==
  {list[i] : i \in {j \in 1..Len(list) :
                      /\ list[j].id = credentialId
                      /\ \A k \in 1..(j-1) : list[k].id # credentialId}}

\* What the gateway can answer when it does hold a matching record.
RemoteCredential(credentialId) == Credential(credentialId, "remote", "remote")

\* verifyCredential(credentialId, ipfsHash): the results it can return.  The
\* order in which localStorage.key(i) lists the keys is the browser's; within
\* one scan any key with a match may come first.
verifyCredential(credentialId, remote) ==
  LET studentHits == UNION {FindCredential(student_credentials[k], credentialId) :
                              k \in DOMAIN student_credentials}
      institutionHits == UNION {FindCredential(credentials[k], credentialId) :
                                  k \in DOMAIN credentials}
  IN  IF remote = "match"
        THEN {[isValid |-> TRUE, credential |-> RemoteCredential(credentialId)]}
      ELSE IF studentHits # {}
        THEN {[isValid |-> TRUE, credential |-> c] : c \in studentHits}
      ELSE IF institutionHits # {}
        THEN {[isValid |-> TRUE, credential |-> c] : c \in institutionHits}
      ELSE {[isValid |-> FALSE, credential |-> NoCredential]}

\* VerifyCredential.handleVerify: it calls verifyCredential and keeps the
\* result in component state; it writes nothing to localStorage.
HandleVerify(credentialId, remote) ==
  /\ account # "none"
  /\ credentialId \in 1..MaxCreds
  /\ remote \in {"match", "nomatch"}
  /\ \E result \in verifyCredential(credentialId, remote) :
       last' = [Last("handleVerify", ToLower(account), "", remote,
                     result.isValid, result.credential, NoResult)
                  EXCEPT !.id = credentialId]
  /\ UNCHANGED <<pinataConfigured, account, pendingUsers, approvedUsers, role,
                 profileKeys, credentials, student_credentials,
                 verification_history, verificationHistory, ipfsMappings,
                 txToIpfsMappings, txMentions, showRoleModal, selectedRole,
                 route, nextId>>

\* ------------------------------------------------------- StudentDashboard
\* A variant of addVerificationRecord that stores the new record alone.
addVerificationRecordAlone(history, credentialId, verifierAddress, status) ==
  <<VerificationRecord(credentialId, verifierAddress, status)>>

\* addVerificationRecord: the history it stores, built from component state.
addVerificationRecord(history, credentialId, verifierAddress, status) ==
  Append(history, VerificationRecord(credentialId, verifierAddress, status))

\* shareCredential(credential, verifierName, verifierAddress)
ShareCredential(credentialId, verifierAddress) ==
  /\ account \in Users
  /\ credentialId \in 1..MaxCreds
  /\ verifierAddress \in AddrInputs
  /\ Len(verificationHistory) < MaxShares
  /\ LET updatedHistory ==
           addVerificationRecord(verificationHistory, credentialId,
                                 verifierAddress, "valid")
     IN  /\ verificationHistory' = updatedHistory
         /\ verification_history' =
              [verification_history EXCEPT ![ToLower(account)] = updatedHistory]
         /\ last' = Last("shareCredential", ToLower(account),
                         ToLower(verifierAddress), "", TRUE,
                         Credential(credentialId, ToLower(account), ""), NoResult)
  /\ UNCHANGED <<pinataConfigured, account, pendingUsers, approvedUsers, role,
                 profileKeys, credentials, student_credentials, ipfsMappings,
                 txToIpfsMappings, txMentions, showRoleModal, selectedRole,
                 route, nextId>>

\* ------------------------------------------------------------ specification
\* One operation of a behaviour that is bounded to MaxOps operations: a
\* handler that runs to completion, no other handler being suspended.
Budgeted(Operation) ==
  /\ ops < MaxOps
  /\ Operation
  /\ ops' = ops + 1
  /\ UNCHANGED <<approving, loading, modal, chain>>

\* Every operation of the portal, in behaviours of at most MaxOps operations.
Next ==
  \/ Budgeted(ConnectAdmin)
  \/ \E a \in Users : Budgeted(Connect(a))
  \/ Budgeted(Disconnect)
  \/ Budgeted(DashboardButton)
  \/ Budgeted(CloseModal)
  \/ \E r \in Roles : Budgeted(HandleConfirmRoleRejected(r))
  \/ \E r \in Roles, t \in WalletHashes, o \in PinOutcomes(pinataConfigured),
        h \in PinHashes : Budgeted(HandleConfirmRole(r, t, o, h))
  \/ \E i \in 1..Len(pendingUsers), o \in PinOutcomes(pinataConfigured),
        h \in PinHashes : Budgeted(HandleApprove(i, o, h))
  \/ \E i \in 1..Len(pendingUsers), o \in PinOutcomes(pinataConfigured),
        h \in PinHashes : Budgeted(HandleReject(i, o, h))
  \/ \E i \in 1..Len(approvedUsers) : Budgeted(HandleRemove(i))
  \/ \E a \in AddrInputs : Budgeted(HandleAddUserRejected(a))
  \/ \E a \in AddrInputs, r \in Roles, t \in WalletHashes,
        o \in PinOutcomes(pinataConfigured), h \in PinHashes :
        Budgeted(HandleAddUser(a, r, t, o, h))
  \/ \E a \in AddrInputs, r \in Roles : Budgeted(FastAdd(a, r))
  \/ Budgeted(LoadUsers)
  \/ \E s \in AddrInputs, o \in PinOutcomes(pinataConfigured), h \in PinHashes :
        Budgeted(HandleSubmit(s, o, h))
  \/ \E c \in 1..MaxCreds, m \in {"match", "nomatch"} : Budgeted(HandleVerify(c, m))
  \/ \E c \in 1..MaxCreds, v \in AddrInputs : Budgeted(ShareCredential(c, v))

Spec == Init /\ [][Next]_vars

\* The credential flows alone (issue, verify, share, connect, disconnect).
\* No other operation writes credentials_*, student_credentials_* or
\* verification_history_*.
NextCredentials ==
  \/ \E a \in Users : Budgeted(Connect(a))
  \/ Budgeted(Disconnect)
  \/ \E s \in AddrInputs, o \in PinOutcomes(pinataConfigured), h \in PinHashes :
        Budgeted(HandleSubmit(s, o, h))
  \/ \E c \in 1..MaxCreds, m \in {"match", "nomatch"} : Budgeted(HandleVerify(c, m))
  \/ \E c \in 1..MaxCreds, v \in AddrInputs : Budgeted(ShareCredential(c, v))

SpecCredentials == Init /\ [][NextCredentials]_vars

\* Role resolution on arbitrary stored data: localStorage as earlier sessions
\* (or other pages of the origin) can have left it, then wallets connecting.
StoredEntries ==
  {Entry(a, r, "approved", NoHash, NoHash) : a \in AddrInputs, r \in Roles}

StoredLists ==
  UNION {[1..n -> StoredEntries] : n \in 0..MaxStored}

StoredCredentials ==
  {EmptyLists} \cup
  {[EmptyLists EXCEPT ![a] = <<Credential(1, a, a)>>] : a \in LowerUsers}

InitRole ==
  /\ pinataConfigured = FALSE
  /\ account = "none"
  /\ pendingUsers = <<>>
  /\ approvedUsers \in StoredLists
  /\ role \in [LowerUsers -> {NoRole} \cup Roles]
  /\ profileKeys \in SUBSET LowerUsers
  /\ credentials = EmptyLists
  /\ student_credentials \in StoredCredentials
  /\ verification_history = EmptyLists
  /\ verificationHistory = <<>>
  /\ ipfsMappings = EmptyLists
  /\ txToIpfsMappings = {}
  /\ txMentions \in SUBSET LowerUsers
  /\ showRoleModal = FALSE
  /\ selectedRole = NoRole
  /\ route = "/"
  /\ nextId = 0
  /\ last = Last("init", "", "", "", FALSE, NoCredential, NoResult)
  /\ ops = 0
  /\ approving = {}
  /\ loading = {}
  /\ modal = InitialModal
  /\ chain = DeployedChain

NextRole == \E a \in Users : Budgeted(Connect(a))

SpecRole == InitRole /\ [][NextRole]_vars

\* ------------------------------------------------------------------ claims
HasEntry(list, address) ==
  \E i \in 1..Len(list) : ToLower(list[i].address) = address

CountId(list, id) == Cardinality({i \in 1..Len(list) : list[i].id = id})

\* C1: once handleApprove(user) has completed, whatever the pinning call did,
\* pendingUsers holds no entry with the user's lower-cased address and
\* approvedUsers holds an entry for it with status 'approved'.
C1_ApproveMovesUser ==
  last.op = "handleApprove" =>
    /\ ~HasEntry(pendingUsers, last.addr)
    /\ \E i \in 1..Len(approvedUsers) :
         /\ ToLower(approvedUsers[i].address) = last.addr
         /\ approvedUsers[i].status = "approved"

\* C2: one handleSubmit adds exactly one entry carrying the new credential id
\* to credentials_<I> and exactly one to student_credentials_<S>, whether the
\* pinning call succeeds or fails.
C2_OneEntryPerSubmission ==
  last.op = "handleSubmit" =>
    /\ CountId(credentials[last.addr], last.cred.id) = 1
    /\ CountId(student_credentials[last.peer], last.cred.id) = 1

\* C3: issueCredential returns success=true with the pinning hash when the
\* pinning call succeeds; when it fails for any reason it returns
\* success=false with an error message, and the credential is nevertheless
\* appended to credentials_<issuer> and student_credentials_<studentWallet>.
C3_IssueCredentialResult ==
  last.op = "handleSubmit" =>
    IF last.pin = "ok"
    THEN /\ last.result.success
         /\ last.result.hash \in PinHashes
    ELSE /\ ~last.result.success
         /\ last.result.error # ""
         /\ credentials[last.cred.issuerWallet] # <<>>
         /\ credentials[last.cred.issuerWallet]
              [Len(credentials[last.cred.issuerWallet])] = last.cred
         /\ student_credentials[last.cred.studentWallet] # <<>>
         /\ student_credentials[last.cred.studentWallet]
              [Len(student_credentials[last.cred.studentWallet])] = last.cred

\* A failed pinning call was answered with success=false and the credential
\* is in the student's list.
C3_Witness ==
  /\ last.op = "handleSubmit"
  /\ last.pin = "network"
  /\ ~last.result.success
  /\ last.cred \in SeqRange(student_credentials[last.cred.studentWallet])

\* C4: checkIfUserHasRole consults, in this order and stopping at the first
\* hit, (1) role_<addr>, (2) the approvedUsers entry of the address, whose role
\* it caches in role_<addr>, (3) the transaction data mentioning the address,
\* which sets role_<addr> to 'student', (4) the keys named after the address;
\* it returns false only when all four find nothing.
C4_ResolutionOrder ==
  [][last'.op = "checkIfUserHasRole" =>
       LET a == last'.addr
           direct == role[a] # NoRole
           listed == HasEntry(approvedUsers, a)
           first == CHOOSE i \in 1..Len(approvedUsers) :
                      /\ ToLower(approvedUsers[i].address) = a
                      /\ \A j \in 1..(i-1) : ToLower(approvedUsers[j].address) # a
           mentioned ==
             \/ a \in txMentions
             \/ \E k \in DOMAIN ipfsMappings : \E i \in 1..Len(ipfsMappings[k]) :
                  ToLower(ipfsMappings[k][i]) = a
           named ==
             \/ a \in profileKeys
             \/ credentials[a] # <<>>
             \/ student_credentials[a] # <<>>
             \/ verification_history[a] # <<>>
             \/ ipfsMappings[a] # <<>>
       IN  /\ last'.ok = (direct \/ listed \/ mentioned \/ named)
           /\ direct => (role' = role /\ last'.pin = "direct storage")
           /\ (~direct /\ listed) =>
                /\ role' = [role EXCEPT ![a] = approvedUsers[first].role]
                /\ last'.pin = "approved users list"
           /\ (~direct /\ ~listed /\ mentioned) =>
                /\ role' = [role EXCEPT ![a] = "student"]
                /\ last'.pin = "transaction data"
           /\ (~direct /\ ~listed /\ ~mentioned) =>
                /\ role' = role
                /\ last'.pin = IF named THEN "localStorage" ELSE "No role found"
  ]_vars

\* An address that is both in approvedUsers as an institution and mentioned in
\* the transaction data was resolved from the approved list.
C4_Witness ==
  /\ last.op = "checkIfUserHasRole"
  /\ last.ok
  /\ last.pin = "approved users list"
  /\ last.addr \in txMentions
  /\ HasEntry(approvedUsers, last.addr)
  /\ role[last.addr] = "institution"
  /\ \A i \in 1..Len(approvedUsers) : approvedUsers[i].role = "institution"

\* C5: with no remote match, verifyCredential(id) answers isValid=true exactly
\* when some student_credentials_* or credentials_* array holds a credential
\* with that id, and then the credential returned has that id; otherwise it
\* answers isValid=false with no credential.
C5_LocalVerification ==
  (last.op = "handleVerify" /\ last.pin = "nomatch") =>
    LET stored == \E k \in LowerUsers :
                    \/ CountId(student_credentials[k], last.id) > 0
                    \/ CountId(credentials[k], last.id) > 0
    IN  /\ last.ok = stored
        /\ stored => last.cred.id = last.id
        /\ ~stored => last.cred = NoCredential

\* The second credential issued was verified from local storage.
C5_Witness ==
  /\ last.op = "handleVerify"
  /\ last.pin = "nomatch"
  /\ last.ok
  /\ last.id = 2
  /\ last.cred.id = 2

\* C6: once handleReject(user) has completed for a user who was pending and
\* not approved, whatever the pinning call did, the user's lower-cased address
\* is in neither pendingUsers nor approvedUsers.  (handleReject does not add to
\* nor remove from approvedUsers.)
C6_RejectRemovesUser ==
  (last.op = "handleReject" /\ ~HasEntry(approvedUsers, last.addr)) =>
    ~HasEntry(pendingUsers, last.addr)

\* C7: approvedUsers and pendingUsers each contain at most one entry per
\* lower-cased address.
C7_OneEntryPerAddress ==
  \A a \in LowerUsers :
    /\ CountAddress(approvedUsers, a) <= 1
    /\ CountAddress(pendingUsers, a) <= 1

\* C8: no lower-cased address is listed in pendingUsers and in approvedUsers
\* at the same time.
C8_OneBucketPerAddress ==
  \A a \in LowerUsers : ~(HasEntry(pendingUsers, a) /\ HasEntry(approvedUsers, a))

\* C9: a credential written to credentials_<issuer> and
\* student_credentials_<student> is still in both lists after any later action.
C9_CredentialsNeverDeleted ==
  [][\A k \in LowerUsers :
       /\ SeqRange(credentials[k]) \subseteq SeqRange(credentials'[k])
       /\ SeqRange(student_credentials[k]) \subseteq SeqRange(student_credentials'[k])
  ]_vars

\* C10 as stated: every verification event (a student sharing a credential
\* with a verifier, a verifier verifying a credential id) appends one record
\* to the student's history and one to the verifier's history.
C10_BothHistories ==
  [][/\ last'.op = "shareCredential" =>
          /\ Len(verification_history'[last'.addr]) =
               Len(verification_history[last'.addr]) + 1
          /\ last'.peer # last'.addr =>
               Len(verification_history'[last'.peer]) =
                 Len(verification_history[last'.peer]) + 1
     /\ (last'.op = "handleVerify" /\ last'.addr \in LowerUsers) =>
          Len(verification_history'[last'.addr]) =
            Len(verification_history[last'.addr]) + 1
  ]_vars

\* C10 as the code has it: a student sharing a credential appends exactly one
\* record, naming the credential and the verifier, to the student's own
\* verification_history_<student> and leaves every other history as it was;
\* verifying a credential id writes no history at all.
C10_StudentHistoryOnly ==
  [][/\ last'.op = "shareCredential" =>
          /\ Len(verification_history'[last'.addr]) =
               Len(verification_history[last'.addr]) + 1
          /\ SubSeq(verification_history'[last'.addr], 1,
                    Len(verification_history[last'.addr])) =
               verification_history[last'.addr]
          /\ LET record == verification_history'[last'.addr]
                             [Len(verification_history'[last'.addr])]
             IN  /\ record.credentialId = last'.cred.id
                 /\ ToLower(record.verifierAddress) = last'.peer
          /\ \A k \in LowerUsers \ {last'.addr} :
               verification_history'[k] = verification_history[k]
     /\ last'.op = "handleVerify" => verification_history' = verification_history
  ]_vars

\* A student who had shared before shared again, with another address.
C10_Witness ==
  /\ last.op = "shareCredential"
  /\ last.peer # last.addr
  /\ Len(verification_history[last.addr]) = 2
  /\ verification_history[last.peer] = <<>>

\* ------------------------------------------- handleApprove, step by step
\* One step of a handler that can be suspended at a request.
Stepwise(Operation) ==
  /\ ops < MaxOps
  /\ Operation
  /\ ops' = ops + 1
  /\ UNCHANGED <<loading, modal, chain>>

\* pendingUsers as the fallback of storeTransactionData leaves it: one entry
\* per address, here one for each of the two users.
PendingLists ==
  {<<Entry(a, r1, "approved", "0xtx1", NoHash), Entry(b, r2, "approved", "0xtx1", NoHash)>> :
     <<a, b, r1, r2>> \in {t \in AddrInputs \X AddrInputs \X Roles \X Roles :
                            ~SameAddress(t[1], t[2])}}

\* The admin on the dashboard, two users waiting for approval.
InitApprove ==
  /\ pinataConfigured = TRUE
  /\ account = Admin
  /\ pendingUsers \in PendingLists
  /\ approvedUsers = <<>>
  /\ role = [a \in LowerUsers |-> NoRole]
  /\ profileKeys = {}
  /\ credentials = EmptyLists
  /\ student_credentials = EmptyLists
  /\ verification_history = EmptyLists
  /\ verificationHistory = <<>>
  /\ ipfsMappings = EmptyLists
  /\ txToIpfsMappings = {}
  /\ txMentions = {}
  /\ showRoleModal = FALSE
  /\ selectedRole = NoRole
  /\ route = "/admin-dashboard"
  /\ nextId = 0
  /\ last = Last("connectAdmin", ToLower(Admin), "", "", TRUE, NoCredential, NoResult)
  /\ ops = 0
  /\ approving = {}
  /\ loading = {}
  /\ modal = InitialModal
  /\ chain = DeployedChain

NextApprove ==
  \/ \E i \in 1..Len(pendingUsers) : Stepwise(HandleApproveBegin(i))
  \/ \E call \in approving, o \in PinOutcomes(pinataConfigured), h \in PinHashes :
       Stepwise(HandleApproveSettle(call, o, h))

SpecApprove == InitApprove /\ [][NextApprove]_vars

\* C11: two handleApprove calls for different pending users, each suspended at
\* its pinning request, clobber each other: a call that settles with the
\* pinning request succeeded writes back the array it built before the
\* request, so the user a call still in flight appended in the meantime is
\* missing from approvedUsers.
C11_ApproveClobbers ==
  [][(last'.op = "handleApproveSettle" /\ last'.pin = "ok") =>
       \A call \in approving \ approving', other \in approving' :
         /\ Len(approvedUsers') = Len(call.updatedApprovedUsers)
         /\ ~HasEntry(call.updatedApprovedUsers, ToLower(other.user.address)) =>
              ~HasEntry(approvedUsers', ToLower(other.user.address))
  ]_vars

\* Both calls have run to their end, both users have their role_<addr> key,
\* and approvedUsers holds only one of them.
C11_Witness ==
  /\ last.op = "handleApproveSettle"
  /\ approving = {}
  /\ \A a \in LowerUsers : role[a] # NoRole
  /\ pendingUsers = <<>>
  /\ Len(approvedUsers) = 1

\* --------------------------------------- handleConfirmRole, step by step
\* A variant of the catch/finally blocks that leaves isProcessing set.
handleConfirmRoleCaughtBusy(m) ==
  [m EXCEPT !.transactionStatus = "error", !.request = "none"]

\* handleConfirmRole's catch and finally blocks, lines 142-147.
handleConfirmRoleCaught(m) ==
  [m EXCEPT !.transactionStatus = "error", !.isProcessing = FALSE,
            !.request = "none"]

\* handleConfirmRole, lines 31-55: up to the wallet request.  The Confirm
\* button is rendered in the idle view only.
ConfirmRoleBegin(r) ==
  /\ ModalVisible
  /\ r \in Roles
  /\ modal.transactionStatus = "idle"
  /\ modal.request = "none"
  /\ modal' = [modal EXCEPT !.isProcessing = TRUE,
                            !.transactionStatus = "processing",
                            !.request = "wallet",
                            !.address = ToLower(account),
                            !.selectedRole = r,
                            !.transactionHash = NoHash]
  /\ last' = Last("handleConfirmRoleBegin", ToLower(account), "", "", TRUE,
                  NoCredential, NoResult)
  /\ UNCHANGED <<pinataConfigured, account, pendingUsers, approvedUsers, role,
                 profileKeys, credentials, student_credentials,
                 verification_history, verificationHistory, ipfsMappings,
                 txToIpfsMappings, txMentions, showRoleModal, selectedRole,
                 route, nextId>>

\* The wallet request rejects: catch, then finally.
ConfirmRoleWalletRejected ==
  /\ modal.request = "wallet"
  /\ modal' = handleConfirmRoleCaught(modal)
  /\ last' = Last("handleConfirmRole", modal.address, "", "walletRejected",
                  FALSE, NoCredential, NoResult)
  /\ UNCHANGED <<pinataConfigured, account, pendingUsers, approvedUsers, role,
                 profileKeys, credentials, student_credentials,
                 verification_history, verificationHistory, ipfsMappings,
                 txToIpfsMappings, txMentions, showRoleModal, selectedRole,
                 route, nextId>>

\* Lines 97-127 for the record to store: approvedUsers and role_<addr> are
\* written and the status becomes 'success'; the 1500 ms timer is started.
ConfirmRoleStored(transactionData) ==
  /\ approvedUsers' = handleConfirmRoleApproved(approvedUsers, transactionData)
  /\ role' = [role EXCEPT ![modal.address] = modal.selectedRole]
  /\ modal' = [modal EXCEPT !.transactionStatus = "success",
                            !.request = "timer",
                            !.transactionHash = transactionData.transactionHash]

\* The wallet request resolves with the transaction hash, lines 57-86.  With
\* the pinning service configured the call is suspended again at
\* storeTransactionData; without it the record is stored at once.
ConfirmRoleWalletResolved(txHash) ==
  /\ modal.request = "wallet"
  /\ txHash \in WalletHashes
  /\ IF pinataConfigured
     THEN /\ modal' = [modal EXCEPT !.request = "pinning",
                                    !.transactionHash = txHash]
          /\ UNCHANGED <<approvedUsers, role>>
     ELSE ConfirmRoleStored(Entry(modal.address, modal.selectedRole, "approved",
                                  txHash, NoHash))
  /\ last' = Last("handleConfirmRoleWallet", modal.address, "", "", TRUE,
                  NoCredential, NoResult)
  /\ UNCHANGED <<pinataConfigured, account, pendingUsers, profileKeys,
                 credentials, student_credentials, verification_history,
                 verificationHistory, ipfsMappings, txToIpfsMappings, txMentions,
                 showRoleModal, selectedRole, route, nextId>>

\* The pinning request settles, lines 86-127.
ConfirmRolePinSettled(outcome, hash) ==
  /\ modal.request = "pinning"
  /\ outcome \in PinOutcomes(pinataConfigured)
  /\ hash \in PinHashes
  /\ LET transactionData == Entry(modal.address, modal.selectedRole, "approved",
                                  modal.transactionHash, NoHash)
         store == storeTransactionData(PinStore, transactionData, outcome, hash)
         pinned == IF outcome = "ok"
                   THEN [transactionData EXCEPT !.ipfsHash = hash]
                   ELSE transactionData
     IN  /\ pendingUsers' = store.pendingUsers
         /\ txToIpfsMappings' = store.txToIpfsMappings
         /\ ipfsMappings' = store.ipfsMappings
         /\ ConfirmRoleStored(pinned)
  /\ last' = Last("handleConfirmRolePin", modal.address, "", outcome, TRUE,
                  NoCredential, NoResult)
  /\ UNCHANGED <<pinataConfigured, account, profileKeys, credentials,
                 student_credentials, verification_history, verificationHistory,
                 txMentions, showRoleModal, selectedRole, route, nextId>>

\* The timer fires, lines 130-147: onSelectRole (App.handleRoleSelect), the
\* navigation to the dashboard, then finally.
ConfirmRoleFinish ==
  /\ modal.request = "timer"
  /\ approvedUsers' = handleRoleSelectApproved(approvedUsers, modal.address,
                                               modal.selectedRole)
  /\ role' = [role EXCEPT ![modal.address] = modal.selectedRole]
  /\ profileKeys' = profileKeys \cup {modal.address}
  /\ selectedRole' = modal.selectedRole
  /\ showRoleModal' = FALSE
  /\ route' = DashboardOf(modal.selectedRole, route)
  /\ modal' = [modal EXCEPT !.isProcessing = FALSE, !.request = "none"]
  /\ last' = Last("handleConfirmRole", modal.address, "", "", TRUE,
                  NoCredential, NoResult)
  /\ UNCHANGED <<pinataConfigured, account, pendingUsers, credentials,
                 student_credentials, verification_history, verificationHistory,
                 ipfsMappings, txToIpfsMappings, txMentions, nextId>>

\* The error view's "Try Again" button: setTransactionStatus("idle").
TryAgain ==
  /\ ModalVisible
  /\ modal.transactionStatus = "error"
  /\ modal' = [modal EXCEPT !.transactionStatus = "idle"]
  /\ last' = Last("tryAgain", ToLower(account), "", "", TRUE, NoCredential, NoResult)
  /\ UNCHANGED <<pinataConfigured, account, pendingUsers, approvedUsers, role,
                 profileKeys, credentials, student_credentials,
                 verification_history, verificationHistory, ipfsMappings,
                 txToIpfsMappings, txMentions, showRoleModal, selectedRole,
                 route, nextId>>

\* The page the handler navigated to has loaded: the modal, when it is
\* mounted again, starts from its initial state.
ModalReload ==
  /\ modal.transactionStatus = "success"
  /\ modal.request = "none"
  /\ modal' = InitialModal
  /\ last' = Last("reload", ToLower(account), "", "", TRUE, NoCredential, NoResult)
  /\ UNCHANGED <<pinataConfigured, account, pendingUsers, approvedUsers, role,
                 profileKeys, credentials, student_credentials,
                 verification_history, verificationHistory, ipfsMappings,
                 txToIpfsMappings, txMentions, showRoleModal, selectedRole,
                 route, nextId>>

\* A handler of the modal that a click starts.
ModalBegin(Operation) ==
  /\ ops < MaxOps
  /\ Operation
  /\ ops' = ops + 1
  /\ UNCHANGED <<approving, loading, chain>>

\* The continuation of a suspended handleConfirmRole call.
ModalContinue(Operation) ==
  /\ Operation
  /\ UNCHANGED <<ops, approving, loading, chain>>

\* The role-selection modal with handleConfirmRole suspended at its requests.
\* The account does not change, and the modal's Close button is not rendered,
\* while a call is running.
NextModal ==
  \/ \E a \in Users : modal.request = "none" /\ Budgeted(Connect(a))
  \/ modal.request = "none" /\ Budgeted(DashboardButton)
  \/ modal.transactionStatus = "idle" /\ Budgeted(CloseModal)
  \/ \E r \in Roles : ModalBegin(ConfirmRoleBegin(r))
  \/ ModalContinue(ConfirmRoleWalletRejected)
  \/ \E t \in WalletHashes : ModalContinue(ConfirmRoleWalletResolved(t))
  \/ \E o \in PinOutcomes(pinataConfigured), h \in PinHashes :
       ModalContinue(ConfirmRolePinSettled(o, h))
  \/ ModalContinue(ConfirmRoleFinish)
  \/ ModalBegin(TryAgain)
  \/ ModalContinue(ModalReload)

\* The 1500 ms timer of a call that reached 'success' fires.
SpecModal ==
  Init /\ [][NextModal]_vars /\ WF_vars(ModalContinue(ConfirmRoleFinish))

\* C12: the status is 'processing' (and isProcessing set) from before the
\* wallet request is sent; it leaves 'processing' only when the wallet request
\* rejects, to 'error' with isProcessing false, or when the wallet request has
\* resolved and the pinning call, if any, has settled, to 'success'; once
\* 'success' is reached isProcessing returns to false.
C12_ProcessingTransitions ==
  /\ [](modal.request \in {"wallet", "pinning"} =>
          (modal.transactionStatus = "processing" /\ modal.isProcessing))
  /\ [][(modal.transactionStatus = "processing" /\
         modal'.transactionStatus # "processing") =>
          \/ /\ modal.request = "wallet"
             /\ last'.pin = "walletRejected"
             /\ modal'.transactionStatus = "error"
             /\ ~modal'.isProcessing
          \/ /\ modal.request = IF pinataConfigured THEN "pinning" ELSE "wallet"
             /\ last'.pin # "walletRejected"
             /\ modal'.transactionStatus = "success"
        ]_vars
  /\ [](modal.transactionStatus = "error" => ~modal.isProcessing)
  /\ (modal.transactionStatus = "success" ~> ~modal.isProcessing)

\* A call whose wallet and pinning requests both settled is showing
\* 'success' while its timer runs.
C12_Witness ==
  /\ modal.transactionStatus = "success"
  /\ modal.request = "timer"
  /\ modal.isProcessing
  /\ pinataConfigured

\* C13: the admin dashboard is shown only to the admin address, the
\* institution dashboard only to a connected address whose resolved role is
\* 'institution', the student dashboard only to one whose resolved role is
\* 'student'; a connected address with no resolvable role is never left on a
\* role-specific dashboard.
C13_DashboardsGated ==
  account # "none" =>
    /\ route = "/admin-dashboard" => account = Admin
    /\ route = "/institution-dashboard" =>
         /\ account \in Users
         /\ getUserRole(role, ToLower(account)) = "institution"
    /\ route = "/student-dashboard" =>
         /\ account \in Users
         /\ getUserRole(role, ToLower(account)) = "student"

\* ------------------------------------------------- storeTransactionData
\* The records callers hand to storeTransactionData.
DataInputs ==
  {Entry(a, r, st, tx, NoHash) :
     a \in AddrInputs, r \in Roles, st \in {"approved", "rejected"},
     tx \in WalletHashes}

\* pendingUsers as storeDataInLocalStorage keeps it: at most one record per
\* lower-cased address.
StoredPending ==
  {list \in UNION {[1..n -> DataInputs] : n \in 0..MaxPending} :
     \A i, j \in 1..Len(list) :
       SameAddress(list[i].address, list[j].address) => i = j}

InitPin ==
  /\ pinataConfigured \in BOOLEAN
  /\ account = "none"
  /\ pendingUsers \in StoredPending
  /\ approvedUsers = <<>>
  /\ role = [a \in LowerUsers |-> NoRole]
  /\ profileKeys = {}
  /\ credentials = EmptyLists
  /\ student_credentials = EmptyLists
  /\ verification_history = EmptyLists
  /\ verificationHistory = <<>>
  /\ ipfsMappings = EmptyLists
  /\ txToIpfsMappings = {}
  /\ txMentions = {}
  /\ showRoleModal = FALSE
  /\ selectedRole = NoRole
  /\ route = "/"
  /\ nextId = 0
  /\ last = Last("init", "", "", "", FALSE, NoCredential, NoResult)
  /\ ops = 0
  /\ approving = {}
  /\ loading = {}
  /\ modal = InitialModal
  /\ chain = DeployedChain

\* One call of storeTransactionData(data), from its first line to its return
\* or rethrow.
StoreTransactionData(data, outcome, hash) ==
  /\ data \in DataInputs
  /\ outcome \in PinOutcomes(pinataConfigured)
  /\ hash \in PinHashes
  /\ LET store == storeTransactionData(PinStore, data, outcome, hash)
     IN  /\ pendingUsers' = store.pendingUsers
         /\ txToIpfsMappings' = store.txToIpfsMappings
         /\ ipfsMappings' = store.ipfsMappings
         /\ last' = [Last("storeTransactionData", ToLower(data.address), "",
                          outcome, outcome = "ok", NoCredential,
                          [success |-> outcome = "ok",
                           hash |-> IF outcome = "ok" THEN hash ELSE NoHash,
                           error |-> PinErrorMessage(outcome)])
                       EXCEPT !.data = data]
  /\ UNCHANGED <<pinataConfigured, account, approvedUsers, role, profileKeys,
                 credentials, student_credentials, verification_history,
                 verificationHistory, txMentions, showRoleModal, selectedRole,
                 route, nextId>>

NextPin ==
  \E d \in DataInputs, o \in PinOutcomes(pinataConfigured), h \in PinHashes :
    ops < MaxCalls /\ Budgeted(StoreTransactionData(d, o, h))

SpecPin == InitPin /\ [][NextPin]_vars

\* C14: whenever the pinning call of storeTransactionData(data) fails, the
\* record is upserted into pendingUsers keyed by lower-cased address (it
\* replaces the record of that address, or is pushed when there is none) and
\* the error is rethrown; whenever it succeeds, pendingUsers is unchanged and
\* the hash returned is recorded under txToIpfsMappings[data.transactionHash]
\* and in ipfsMappings_<address>.
C14_StoreTransactionData ==
  [][last'.op = "storeTransactionData" =>
       LET data == last'.data
           same == {i \in 1..Len(pendingUsers) :
                      ToLower(pendingUsers[i].address) = ToLower(data.address)}
       IN  IF last'.pin = "ok"
           THEN /\ pendingUsers' = pendingUsers
                /\ last'.result.hash \in PinHashes
                /\ <<data.transactionHash, last'.result.hash>> \in txToIpfsMappings'
                /\ \A p \in txToIpfsMappings' :
                     p[1] = data.transactionHash => p[2] = last'.result.hash
                /\ \E i \in 1..Len(ipfsMappings'[ToLower(data.address)]) :
                     ipfsMappings'[ToLower(data.address)][i] = last'.result.hash
           ELSE /\ last'.result.error # ""
                /\ txToIpfsMappings' = txToIpfsMappings
                /\ ipfsMappings' = ipfsMappings
                /\ IF same = {}
                   THEN pendingUsers' = pendingUsers \o <<data>>
                   ELSE /\ Len(pendingUsers') = Len(pendingUsers)
                        /\ \A i \in 1..Len(pendingUsers) :
                             pendingUsers'[i] = IF i \in same THEN data
                                                ELSE pendingUsers[i]
  ]_vars

\* A failed call replaced, in place, the record the address had in
\* pendingUsers.
C14_Witness ==
  /\ last.op = "storeTransactionData"
  /\ last.pin = "network"
  /\ last.data.address = "0xA1"
  /\ last.data.status = "rejected"
  /\ Len(pendingUsers) = 2
  /\ pendingUsers[1] = last.data

\* ------------------------------------------------------------ EduChain.sol
\* Arguments of the contract's transactions.
InstitutionNames == {"MIT", "MIT-CS"}
StudentNames == {"John"}
CourseNames == {"CS", "CS-1"}
ExpiryDates == 0..MaxTime
\* An id no credential was issued under.
UnknownId == "MIT-John-CS-9"

\* string(abi.encodePacked(name, "-", studentName, "-", courseName, "-",
\* Strings.toString(_credentialCount)))
CredentialId(name, studentName, courseName, count) ==
  name \o "-" \o studentName \o "-" \o courseName \o "-" \o ToString(count)

\* credentials[_credentialId]
CredentialOf(c, id) ==
  IF id \in DOMAIN c.credentials THEN c.credentials[id] ELSE ZeroCredential

\* modifier onlyInstitution
onlyInstitution(c, sender) == c.institutions[sender].isActive

Reverted(c, reason) == [reverted |-> TRUE, reason |-> reason, chain |-> c]

Executed(c) == [reverted |-> FALSE, reason |-> "", chain |-> c]

\* A variant of registerInstitution without its require.
EduChainRegisterInstitutionAgain(c, sender, name) ==
  Executed([c EXCEPT
              !.institutions[sender] = [name |-> name, isActive |-> TRUE],
              !.institutionCount = @ + 1,
              !.events = Append(@, [event |-> "InstitutionRegistered",
                                    id |-> "", student |-> ZeroAddress,
                                    issuer |-> sender])])

\* registerInstitution(_name, _location), msg.sender given.
EduChainRegisterInstitution(c, sender, name) ==
  IF c.institutions[sender].isActive
  THEN Reverted(c, "Institution already registered")
  ELSE Executed([c EXCEPT
                   !.institutions[sender] = [name |-> name, isActive |-> TRUE],
                   !.institutionCount = @ + 1,
                   !.events = Append(@, [event |-> "InstitutionRegistered",
                                         id |-> "", student |-> ZeroAddress,
                                         issuer |-> sender])])

\* The storage writes of issueCredential, lines 72-97.
EduChainIssued(c, sender, student, studentName, courseName, expiryDate) ==
  LET credentialId == CredentialId(c.institutions[sender].name, studentName,
                                   courseName, c.credentialCount)
      credential == [credentialId |-> credentialId,
                     studentName |-> studentName,
                     institutionName |-> c.institutions[sender].name,
                     courseName |-> courseName,
                     issueDate |-> c.timestamp,
                     expiryDate |-> expiryDate,
                     isRevoked |-> FALSE,
                     issuer |-> sender,
                     student |-> student]
  IN  [c EXCEPT
         !.credentials = (credentialId :> credential) @@ @,
         !.studentCredentials[student] = Append(@, credentialId),
         !.credentialCount = @ + 1,
         !.events = Append(@, [event |-> "CredentialIssued", id |-> credentialId,
                               student |-> student, issuer |-> sender])]

\* A variant of issueCredential without the onlyInstitution modifier.
EduChainIssueCredentialByAnyone(c, sender, student, studentName, courseName, expiryDate) ==
  Executed(EduChainIssued(c, sender, student, studentName, courseName, expiryDate))

\* issueCredential(_student, _studentName, _courseName, _expiryDate)
EduChainIssueCredential(c, sender, student, studentName, courseName, expiryDate) ==
  IF ~onlyInstitution(c, sender)
  THEN Reverted(c, "Not a registered institution")
  ELSE Executed(EduChainIssued(c, sender, student, studentName, courseName,
                               expiryDate))

\* A variant of revokeCredential without the issuer check.
EduChainRevokeCredentialByAny(c, sender, id) ==
  IF ~onlyInstitution(c, sender)
  THEN Reverted(c, "Not a registered institution")
  ELSE IF CredentialOf(c, id).isRevoked
  THEN Reverted(c, "Credential already revoked")
  ELSE Executed([c EXCEPT
                   !.credentials = (id :> [CredentialOf(c, id) EXCEPT
                                             !.isRevoked = TRUE]) @@ @,
                   !.events = Append(@, [event |-> "CredentialRevoked", id |-> id,
                                         student |-> ZeroAddress,
                                         issuer |-> sender])])

\* revokeCredential(_credentialId)
EduChainRevokeCredential(c, sender, id) ==
  IF ~onlyInstitution(c, sender)
  THEN Reverted(c, "Not a registered institution")
  ELSE IF CredentialOf(c, id).issuer # sender
  THEN Reverted(c, "Not the original issuer")
  ELSE IF CredentialOf(c, id).isRevoked
  THEN Reverted(c, "Credential already revoked")
  ELSE Executed([c EXCEPT
                   !.credentials = (id :> [CredentialOf(c, id) EXCEPT
                                             !.isRevoked = TRUE]) @@ @,
                   !.events = Append(@, [event |-> "CredentialRevoked", id |-> id,
                                         student |-> ZeroAddress,
                                         issuer |-> sender])])

\* A variant of verifyCredential that treats the expiry date itself as expired.
EduChainVerifyCredentialStrict(c, id) ==
  LET credential == CredentialOf(c, id)
  IN  IF credential.issuer = ZeroAddress THEN FALSE
      ELSE IF credential.isRevoked THEN FALSE
      ELSE IF c.timestamp >= credential.expiryDate THEN FALSE
      ELSE TRUE

\* verifyCredential(_credentialId)
EduChainVerifyCredential(c, id) ==
  LET credential == CredentialOf(c, id)
  IN  IF credential.issuer = ZeroAddress THEN FALSE
      ELSE IF credential.isRevoked THEN FALSE
      ELSE IF c.timestamp > credential.expiryDate THEN FALSE
      ELSE TRUE

\* A variant of getStudentCredentials that leaves out the revoked ids.
EduChainGetLiveStudentCredentials(c, student) ==
  SelectSeq(c.studentCredentials[student],
            LAMBDA id : ~CredentialOf(c, id).isRevoked)

\* getStudentCredentials(_student)
EduChainGetStudentCredentials(c, student) ==
  c.studentCredentials[student]

\* getInstitutionCount()
EduChainGetInstitutionCount(c) == c.institutionCount

\* The portal's state, which no transaction of the contract touches.
PortalState ==
  <<pinataConfigured, account, pendingUsers, approvedUsers, role, profileKeys,
    credentials, student_credentials, verification_history,
    verificationHistory, ipfsMappings, txToIpfsMappings, txMentions,
    showRoleModal, selectedRole, route, nextId, approving, loading, modal>>

\* One call of the contract; a reverted transaction leaves the storage as
\* it was.
Transaction(Call) ==
  /\ ops < MaxOps
  /\ Call
  /\ ops' = ops + 1
  /\ UNCHANGED PortalState

RegisterInstitution(sender, name) ==
  LET tx == EduChainRegisterInstitution(chain, sender, name)
  IN  /\ chain' = tx.chain
      /\ last' = Last("registerInstitution", sender, "", tx.reason,
                      ~tx.reverted, NoCredential, NoResult)

IssueCredential(sender, student, studentName, courseName, expiryDate) ==
  LET tx == EduChainIssueCredential(chain, sender, student, studentName,
                                    courseName, expiryDate)
      credentialId == CredentialId(chain.institutions[sender].name, studentName,
                                   courseName, chain.credentialCount)
  IN  /\ chain.credentialCount < MaxIssued
      /\ chain' = tx.chain
      /\ last' = Last("issueCredential", sender, credentialId, tx.reason,
                      ~tx.reverted, NoCredential, NoResult)

RevokeCredential(sender, id) ==
  LET tx == EduChainRevokeCredential(chain, sender, id)
  IN  /\ chain' = tx.chain
      /\ last' = Last("revokeCredential", sender, id, tx.reason, ~tx.reverted,
                      NoCredential, NoResult)

VerifyCredential(id) ==
  /\ last' = Last("verifyCredential", "", id, "", EduChainVerifyCredential(chain, id),
                  NoCredential, NoResult)
  /\ UNCHANGED chain

GetStudentCredentials(student) ==
  /\ last' = [Last("getStudentCredentials", student, "", "", TRUE,
                   NoCredential, NoResult)
                EXCEPT !.list = EduChainGetStudentCredentials(chain, student)]
  /\ UNCHANGED chain

GetInstitutionCount ==
  /\ last' = [Last("getInstitutionCount", "", "", "", TRUE, NoCredential,
                   NoResult)
                EXCEPT !.id = EduChainGetInstitutionCount(chain)]
  /\ UNCHANGED chain

\* A later block: block.timestamp grows.
Tick ==
  /\ chain.timestamp < MaxTime
  /\ chain' = [chain EXCEPT !.timestamp = @ + 1]
  /\ last' = Last("block", "", "", "", TRUE, NoCredential, NoResult)

\* The ids a caller can pass: those issued and one that never was.
CredentialIds == DOMAIN chain.credentials \cup {UnknownId}

NextEduChain ==
  \/ \E sender \in Users, name \in InstitutionNames :
       Transaction(RegisterInstitution(sender, name))
  \/ \E sender \in Users, student \in Users, studentName \in StudentNames,
        courseName \in CourseNames, expiryDate \in ExpiryDates :
       Transaction(IssueCredential(sender, student, studentName, courseName,
                                   expiryDate))
  \/ \E sender \in Users, id \in CredentialIds :
       Transaction(RevokeCredential(sender, id))
  \/ \E id \in CredentialIds : Transaction(VerifyCredential(id))
  \/ \E student \in Users : Transaction(GetStudentCredentials(student))
  \/ Transaction(GetInstitutionCount)
  \/ Transaction(Tick)

SpecEduChain == Init /\ [][NextEduChain]_vars

\* C15: issueCredential or revokeCredential called by a sender that is not
\* an active institution reverts and leaves credentials, studentCredentials
\* and both counters as they were; being an active institution is all that
\* issueCredential asks of its sender.
C15_OnlyInstitution ==
  [][last'.op \in {"issueCredential", "revokeCredential"} =>
       /\ ~chain.institutions[last'.addr].isActive =>
            /\ ~last'.ok
            /\ last'.pin = "Not a registered institution"
            /\ chain'.credentials = chain.credentials
            /\ chain'.studentCredentials = chain.studentCredentials
            /\ chain'.credentialCount = chain.credentialCount
            /\ chain'.institutionCount = chain.institutionCount
       /\ (last'.op = "issueCredential" /\ chain.institutions[last'.addr].isActive) =>
            /\ last'.ok
            /\ chain'.credentialCount = chain.credentialCount + 1
  ]_vars

\* An unregistered sender tried to revoke a credential that exists and is
\* not revoked.
C15_Witness ==
  /\ last.op = "revokeCredential"
  /\ ~last.ok
  /\ ~chain.institutions[last.addr].isActive
  /\ last.peer \in DOMAIN chain.credentials
  /\ ~chain.credentials[last.peer].isRevoked

\* The contract's event log: was this event emitted for this id?
Emitted(event, id) ==
  \E i \in 1..Len(chain.events) :
    chain.events[i].event = event /\ chain.events[i].id = id

\* C16: verifyCredential(id) returns true exactly when id was issued, was
\* not revoked, and the block time is not later than its expiryDate; a
\* credential issued with an expiry in the future verifies right after it
\* was issued.
C16_VerifyCredential ==
  /\ last.op = "verifyCredential" =>
       (last.ok <=> /\ Emitted("CredentialIssued", last.peer)
                    /\ ~Emitted("CredentialRevoked", last.peer)
                    /\ chain.timestamp <= CredentialOf(chain, last.peer).expiryDate)
  /\ (/\ last.op = "issueCredential"
      /\ last.ok
      /\ CredentialOf(chain, last.peer).expiryDate > chain.timestamp) =>
       EduChainVerifyCredential(chain, last.peer)

\* A credential was verified as valid in the very block time of its expiry,
\* later than its issuance.
C16_Witness ==
  /\ last.op = "verifyCredential"
  /\ last.ok
  /\ chain.timestamp = CredentialOf(chain, last.peer).expiryDate
  /\ chain.timestamp > CredentialOf(chain, last.peer).issueDate

\* The event log: id was issued by this sender.
IssuedBy(id, sender) ==
  \E i \in 1..Len(chain.events) :
    /\ chain.events[i].event = "CredentialIssued"
    /\ chain.events[i].id = id
    /\ chain.events[i].issuer = sender

\* C17: revokeCredential(id) succeeds only for the institution that issued
\* id and only while id is not revoked; every other call, one for an id that
\* was never issued included, reverts and changes nothing.  No operation
\* clears isRevoked, so from a successful revocation on verifyCredential(id)
\* is false.
C17_RevokeCredential ==
  [][/\ last'.op = "revokeCredential" =>
          /\ last'.ok <=> /\ IssuedBy(last'.peer, last'.addr)
                          /\ ~Emitted("CredentialRevoked", last'.peer)
          /\ ~Emitted("CredentialIssued", last'.peer) => ~last'.ok
          /\ ~last'.ok => chain' = chain
          /\ last'.ok => CredentialOf(chain', last'.peer).isRevoked
     /\ \A id \in DOMAIN chain.credentials \cup DOMAIN chain'.credentials \cup {UnknownId} :
          CredentialOf(chain, id).isRevoked =>
            /\ CredentialOf(chain', id).isRevoked
            /\ ~EduChainVerifyCredential(chain', id)
  ]_vars

\* A credential revoked by its issuer was later verified, before its expiry,
\* and found invalid.
C17_Witness ==
  /\ last.op = "verifyCredential"
  /\ ~last.ok
  /\ Emitted("CredentialRevoked", last.peer)
  /\ IssuedBy(last.peer, CredentialOf(chain, last.peer).issuer)
  /\ chain.timestamp <= CredentialOf(chain, last.peer).expiryDate

\* The senders that are active institutions.
ActiveInstitutions(c) == {a \in Users : c.institutions[a].isActive}

\* C18: registerInstitution makes an unregistered sender an active
\* institution and grows the institution count by one; for a registered
\* sender it reverts and changes nothing.  An active institution stays
\* active, and getInstitutionCount is the number of active institutions.
C18_RegisterInstitution ==
  [][/\ last'.op = "registerInstitution" =>
          IF chain.institutions[last'.addr].isActive
          THEN ~last'.ok /\ chain' = chain
          ELSE /\ last'.ok
               /\ chain'.institutions[last'.addr].isActive
               /\ chain'.institutionCount = chain.institutionCount + 1
     /\ ActiveInstitutions(chain) \subseteq ActiveInstitutions(chain')
     /\ EduChainGetInstitutionCount(chain') = Cardinality(ActiveInstitutions(chain'))
     /\ last'.op = "getInstitutionCount" =>
          last'.id = Cardinality(ActiveInstitutions(chain'))
  ]_vars

\* With both senders registered, one of them called registerInstitution
\* again.
C18_Witness ==
  /\ last.op = "registerInstitution"
  /\ ~last.ok
  /\ chain.institutionCount = 2

\* The event log: the ids issued to this student, in the order of issuance.
IssuedTo(c, student) ==
  LET issued == SelectSeq(c.events,
                          LAMBDA e : e.event = "CredentialIssued" /\ e.student = student)
  IN  [i \in 1..Len(issued) |-> issued[i].id]

\* C19: getStudentCredentials(student) returns exactly the ids issued with
\* that student address, in the order of issuance; a revocation or the
\* passing of an expiry date never takes an id off the list.
C19_StudentCredentials ==
  [][/\ \A student \in Users :
          /\ EduChainGetStudentCredentials(chain', student) = IssuedTo(chain', student)
          /\ Len(chain.studentCredentials[student]) <= Len(chain'.studentCredentials[student])
          /\ SubSeq(chain'.studentCredentials[student], 1,
                    Len(chain.studentCredentials[student]))
               = chain.studentCredentials[student]
     /\ last'.op = "getStudentCredentials" =>
          last'.list = IssuedTo(chain', last'.addr)
  ]_vars

\* The list returned for a student holds two ids, one of them revoked.
C19_Witness ==
  /\ last.op = "getStudentCredentials"
  /\ Len(last.list) = 2
  /\ last.list[1] # last.list[2]
  /\ \E i \in 1..2 : CredentialOf(chain, last.list[i]).isRevoked

\* C20: whenever checkIfUserHasRole(address) returned true, getUserRole(address)
\* right after it returns a role, so the connected non-admin user is on a
\* dashboard of that role or sees the role-selection modal.
C20_RoleAfterCheck ==
  (last.op = "checkIfUserHasRole" /\ last.ok) =>
    /\ getUserRole(role, last.addr) # NoRole
    /\ \/ ModalVisible
       \/ route = DashboardOf(getUserRole(role, last.addr), "")

\* ------------------------------------------------ loadUsers, step by step
\* loadUsers up to its first await, lines 46-109, with the pinning service
\* configured: both lists are read from localStorage and sorted, and the call
\* is suspended at getTransactionsForAddress holding these arrays.
\* approvedMeanwhile records the addresses handleApprove is called for while
\* the call is suspended.
LoadUsersBegin ==
  /\ account = Admin
  /\ pinataConfigured
  /\ Cardinality(loading) < MaxLoading
  /\ \E pendingUsersList \in Orders(pendingUsers),
        approvedUsersList \in Orders(approvedUsers) :
       loading' = loading \cup
         {[pendingUsersList |-> pendingUsersList,
           approvedUsersList |-> approvedUsersList,
           approvedMeanwhile |-> {}]}
  /\ last' = Last("loadUsersBegin", ToLower(Admin), "", "", TRUE, NoCredential,
                  NoResult)
  /\ UNCHANGED <<pinataConfigured, account, pendingUsers, approvedUsers, role,
                 profileKeys, credentials, student_credentials,
                 verification_history, verificationHistory, ipfsMappings,
                 txToIpfsMappings, txMentions, showRoleModal, selectedRole,
                 route, nextId, approving>>

\* loadUsers from the settling of its remote requests to its end, lines
\* 110-173: no pin is recorded under the admin's address, so the loop merges
\* nothing, and the arrays read before the await are written to localStorage.
LoadUsersSettle(call) ==
  /\ call \in loading
  /\ pendingUsers' = call.pendingUsersList
  /\ approvedUsers' = call.approvedUsersList
  /\ loading' = loading \ {call}
  /\ last' = [Last("loadUsersSettle", ToLower(Admin), "", "", TRUE, NoCredential,
                   NoResult)
                EXCEPT !.list = call.approvedMeanwhile]
  /\ UNCHANGED <<pinataConfigured, account, role, profileKeys, credentials,
                 student_credentials, verification_history, verificationHistory,
                 ipfsMappings, txToIpfsMappings, txMentions, showRoleModal,
                 selectedRole, route, nextId, approving>>

\* The suspended loadUsers calls once handleApprove was called for address.
ApprovedMeanwhile(address) ==
  {[call EXCEPT !.approvedMeanwhile = @ \cup {ToLower(address)}] : call \in loading}

\* One step of a handler on the admin dashboard.
Refreshing(Operation) ==
  /\ ops < MaxOps
  /\ Operation
  /\ ops' = ops + 1
  /\ UNCHANGED <<modal, chain>>

\* The admin dashboard with the auto-refresh running: the interval's loadUsers
\* calls and the Approve button's handleApprove calls, each suspended at its
\* requests.
NextRefresh ==
  \/ Refreshing(LoadUsersBegin)
  \/ \E call \in loading : Refreshing(LoadUsersSettle(call))
  \/ \E i \in 1..Len(pendingUsers) :
       Refreshing(HandleApproveBegin(i)
                  /\ loading' = ApprovedMeanwhile(pendingUsers[i].address))
  \/ \E call \in approving, o \in PinOutcomes(pinataConfigured), h \in PinHashes :
       Refreshing(HandleApproveSettle(call, o, h) /\ UNCHANGED loading)

SpecRefresh == InitApprove /\ [][NextRefresh]_vars

\* C21: an approval is not lost to a concurrent refresh.  When a loadUsers
\* call completes and no handleApprove or loadUsers call is left in flight,
\* every user handleApprove was called for while that loadUsers call was
\* suspended is in approvedUsers and is not in pendingUsers.
C21_ApprovalSurvivesRefresh ==
  (last.op = "loadUsersSettle" /\ approving = {} /\ loading = {}) =>
    \A a \in last.list :
      HasEntry(approvedUsers, a) /\ ~HasEntry(pendingUsers, a)

\* C22: issuing a credential leaves the role collections untouched:
\* issueCredential changes no entry of pendingUsers or approvedUsers, whether
\* the pinning call succeeds or fails.
C22_IssueKeepsRoleLists ==
  [][last'.op = "handleSubmit" =>
       /\ pendingUsers' = pendingUsers
       /\ approvedUsers' = approvedUsers
  ]_vars

\* C23: once the admin has removed an approved user with handleRemove, role
\* resolution finds nothing for that address: on the user's next connect
\* checkIfUserHasRole returns false and the role-selection modal is shown,
\* also for a user whose role came from the role-selection flow.
C23_RemovedUserAsksAgain ==
  [][(/\ last.op = "handleRemove"
      /\ last'.op = "checkIfUserHasRole"
      /\ last'.addr = last.addr) =>
       /\ ~last'.ok
       /\ showRoleModal'
  ]_vars

\* C24: after a successful paid role selection (handleConfirmRole followed by
\* its onSelectRole callback handleRoleSelect) the approvedUsers entry of the
\* address carries the transactionHash of the payment, and the ipfsHash when
\* the pinning succeeded.
C24_EntryKeepsPayment ==
  (last.op = "handleConfirmRole" /\ last.ok) =>
    \E i \in 1..Len(approvedUsers) :
      /\ ToLower(approvedUsers[i].address) = last.addr
      /\ approvedUsers[i].transactionHash \in WalletHashes
      /\ last.pin = "ok" => approvedUsers[i].ipfsHash \in PinHashes

\* C25: handleAddUser never requests a fee payment for an address that is
\* already in approvedUsers.  Every handleAddUser call past its first line
\* sends the eth_sendTransaction request, whether the wallet then pays or
\* rejects, so no such call is made for an address already approved.
C25_NoFeeWhenApproved ==
  [][last'.op = "handleAddUser" => ~HasEntry(approvedUsers, last'.addr)]_vars
====
